---- MODULE Spec2Model ----
(***************************************************************************)
(* Panchayat election system: createElection (closure over votes,          *)
(* registeredVoters, votedVoters), createVoteValidator and tallyPure.      *)
(*                                                                         *)
(* JavaScript values are records [t, s, n]: t is the kind of value, s the  *)
(* text of a string (or the name of the property an inherited object was   *)
(* read from), n the magnitude of a finite number.                         *)
(***************************************************************************)
EXTENDS Integers, Sequences, FiniteSets, TLC

\* candidateList, votes, registeredVoters, votedVoters: the closure's state.
\* stack: the castVote callbacks that are running, innermost last; a call
\*   made while it is not empty is made from inside the innermost one.
\* last: the latest call on the module, its arguments and what it returned
\*   or which callback it invoked.
\* accepted, successes: how often onSuccess has been invoked, per candidate
\*   id and per voter id. returnedTrue: the ids registerVoter returned true for.
VARIABLES candidateList, votes, registeredVoters, votedVoters, stack, last,
          accepted, successes, returnedTrue

vars == <<candidateList, votes, registeredVoters, votedVoters, stack, last,
          accepted, successes, returnedTrue>>

\* ------------------------------------------------------------------ bounds

\* Longest roster handed to createElection.
MaxRoster == 2

\* Deepest nesting of castVote callbacks that themselves call the election.
MaxDepth == 1

\* Largest count stored in a tally handed to tallyPure directly.
MaxCount == 2

\* Longest requiredFields list handed to createVoteValidator.
MaxFields == 2

\* ------------------------------------------------------- JavaScript values

Undef == [t |-> "undefined", s |-> "", n |-> 0]
Null == [t |-> "null", s |-> "", n |-> 0]
NaN == [t |-> "nan", s |-> "", n |-> 0]
Str(x) == [t |-> "string", s |-> x, n |-> 0]
Num(x) == [t |-> "number", s |-> "", n |-> x]
Bool(b) == [t |-> "boolean", s |-> "", n |-> IF b THEN 1 ELSE 0]
\* The object found on Object.prototype under property k (a function for
\* "constructor", "toString", ...).
Inherited(k) == [t |-> "object", s |-> k, n |-> 0]

\* Number.isFinite: no coercion, so only finite numbers pass.
IsFinite(v) == v.t = "number"

\* x ?? d
Coalesce(x, d) == IF x.t \in {"undefined", "null"} THEN d ELSE x

\* x - y: a number when both operands are numbers; an object operand (a
\* function) converts to NaN.
Minus(x, y) == IF IsFinite(x) /\ IsFinite(y) THEN Num(x.n - y.n) ELSE NaN

\* Property names every plain object inherits from Object.prototype.
ObjectPrototypeKeys == {"constructor"}

\* A plain object used as a tally: own holds its own properties.
EmptyOwn == [k \in {} |-> 0]
Obj(own) == [t |-> "object", own |-> own]
NullTally == [t |-> "null", own |-> EmptyOwn]

\* obj[k]: own property, else the prototype chain, else undefined.
Get(obj, k) ==
  IF k \in DOMAIN obj.own THEN Num(obj.own[k])
  ELSE IF k \in ObjectPrototypeKeys THEN Inherited(k)
  ELSE Undef

\* -------------------------------------------------------------- tallyPure

\* Variant of tallyPure: the count goes up by two.
tallyPure_plus2(currentTally, candidateId) ==
  LET safe == IF currentTally.t = "object" THEN currentTally ELSE Obj(EmptyOwn)
      current == IF IsFinite(Get(safe, candidateId)) THEN Get(safe, candidateId).n ELSE 0
  IN  Obj([k \in DOMAIN safe.own \cup {candidateId} |->
             IF k = candidateId THEN current + 2 ELSE safe.own[k]])

\* Variant of tallyPure: the other keys are not copied.
tallyPure_dropOthers(currentTally, candidateId) ==
  LET safe == IF currentTally.t = "object" THEN currentTally ELSE Obj(EmptyOwn)
      current == IF IsFinite(Get(safe, candidateId)) THEN Get(safe, candidateId).n ELSE 0
  IN  Obj([k \in {candidateId} |-> current + 1])

tallyPure(currentTally, candidateId) ==
  LET safe == IF currentTally.t = "object" THEN currentTally ELSE Obj(EmptyOwn)
      current == IF IsFinite(Get(safe, candidateId)) THEN Get(safe, candidateId).n ELSE 0
  IN  Obj([k \in DOMAIN safe.own \cup {candidateId} |->
             IF k = candidateId THEN current + 1 ELSE safe.own[k]])

\* ------------------------------------------------------------------ inputs

\* Candidate records a roster is made of; the id of the last is also the
\* name of a property of Object.prototype.
Candidates ==
  { [id |-> "C1", name |-> "Ram", party |-> "Janata"],
    [id |-> "C2", name |-> "Sita", party |-> "Lok"],
    [id |-> "constructor", name |-> "Om", party |-> "Janata"] }

\* Rosters of at most MaxRoster candidates, no candidate listed twice.
Rosters ==
  UNION { { r \in [1..n -> Candidates] : \A i, j \in 1..n : r[i] = r[j] => i = j } :
          n \in 0..MaxRoster }

\* Ids castVote is called with: the roster's and one no roster holds.
CandidateIds == {"C1", "C2", "constructor", "Cx"}
VoterIds == {"V1", "V2"}

Voter(id, name, age) == [kind |-> "object", id |-> id, name |-> name, age |-> age]
NonObjectVoter(kind) == [kind |-> kind, id |-> Undef, name |-> Undef, age |-> Undef]

VoterInputs ==
  { Voter(Str("V1"), Str("Mohan"), Num(25)),
    Voter(Str("V2"), Str("Sohan"), Num(18)),
    Voter(Str("V1"), Str("Chhotu"), Num(17)),
    Voter(Str(""), Str("Mohan"), Num(25)),
    Voter(Str("V2"), Str(""), Num(40)),
    Voter(Str("V2"), Str("Sohan"), NaN),
    Voter(Str("V2"), Str("Sohan"), Str("25")),
    NonObjectVoter("null") }

\* ------------------------------------------------------- createElection

\* new Map(entries): a later entry replaces an earlier one with the same key.
RECURSIVE LastIndexOf(_, _, _)
LastIndexOf(list, id, i) ==
  IF i = 0 THEN 0
  ELSE IF list[i].id = id THEN i
  ELSE LastIndexOf(list, id, i - 1)

candidateIds == { candidateList[i].id : i \in 1..Len(candidateList) }

candidateById ==
  [id \in candidateIds |-> candidateList[LastIndexOf(candidateList, id, Len(candidateList))]]

\* Roster positions count from 0.
candidateIndex ==
  [id \in candidateIds |-> LastIndexOf(candidateList, id, Len(candidateList)) - 1]

ZeroOn(S) == [x \in S |-> 0]

Init ==
  /\ candidateList \in Rosters
  /\ votes = Obj(EmptyOwn)
  /\ registeredVoters = {}
  /\ votedVoters = {}
  /\ stack = <<>>
  /\ last = [op |-> "createElection"]
  /\ accepted = ZeroOn(CandidateIds)
  /\ successes = ZeroOn(VoterIds)
  /\ returnedTrue = {}

\* ---------------------------------------------------------- registerVoter

\* Variant of isValidVoter: an age of exactly 18 is refused.
isValidVoter_over18(voter) ==
  /\ voter.kind = "object"
  /\ voter.id.t = "string" /\ voter.id.s # ""
  /\ voter.name.t = "string" /\ voter.name.s # ""
  /\ IsFinite(voter.age) /\ voter.age.n > 18

isValidVoter(voter) ==
  /\ voter.kind = "object"
  /\ voter.id.t = "string" /\ voter.id.s # ""
  /\ voter.name.t = "string" /\ voter.name.s # ""
  /\ IsFinite(voter.age) /\ ~(voter.age.n < 18)

registerVoter(voter) ==
  LET ok == isValidVoter(voter) /\ voter.id.s \notin registeredVoters
  IN  /\ registeredVoters' = IF ok THEN registeredVoters \cup {voter.id.s}
                                   ELSE registeredVoters
      /\ returnedTrue' = IF ok THEN returnedTrue \cup {voter.id.s} ELSE returnedTrue
      /\ last' = [op |-> "registerVoter", voter |-> voter, ret |-> ok]
      /\ UNCHANGED <<candidateList, votes, votedVoters, stack, accepted, successes>>

\* --------------------------------------------------------------- castVote

\* Variant of castVoteReason: the voted check ahead of the candidate check.
castVoteReason_votedFirst(voterId, candidateId) ==
  IF voterId \notin registeredVoters THEN "voter not registered"
  ELSE IF voterId \in votedVoters THEN "voter already voted"
  ELSE IF candidateId \notin DOMAIN candidateById THEN "invalid candidate"
  ELSE ""

\* Variant of castVoteReason: no registered check.
castVoteReason_noRegisteredCheck(voterId, candidateId) ==
  IF candidateId \notin DOMAIN candidateById THEN "invalid candidate"
  ELSE IF voterId \in votedVoters THEN "voter already voted"
  ELSE ""

\* Variant of castVoteReason: no voted check.
castVoteReason_noVotedCheck(voterId, candidateId) ==
  IF voterId \notin registeredVoters THEN "voter not registered"
  ELSE IF candidateId \notin DOMAIN candidateById THEN "invalid candidate"
  ELSE ""

\* The reason castVote reports, "" when every check passes.
castVoteReason(voterId, candidateId) ==
  IF voterId \notin registeredVoters THEN "voter not registered"
  ELSE IF candidateId \notin DOMAIN candidateById THEN "invalid candidate"
  ELSE IF voterId \in votedVoters THEN "voter already voted"
  ELSE ""

\* Variant of votedBeforeCallback: the voter is not yet in votedVoters.
votedBeforeCallback_notAdded(voterId) == votedVoters

\* votedVoters when the callback of an accepted vote starts to run.
votedBeforeCallback(voterId) == votedVoters \cup {voterId}

\* reenter: the callback that is invoked calls the election again before it
\* returns. A callback that does not (the no-op substituted for a missing
\* one included) has returned by the end of the step.
castVote(voterId, candidateId, reenter) ==
  LET reason == castVoteReason(voterId, candidateId)
      ok == reason = ""
      cb == IF ok THEN "onSuccess" ELSE "onError"
  IN  /\ reenter => Len(stack) < MaxDepth
      /\ votes' = IF ok THEN tallyPure(votes, candidateId) ELSE votes
      /\ votedVoters' = IF ok THEN votedBeforeCallback(voterId) ELSE votedVoters
      /\ accepted' = IF ok THEN [accepted EXCEPT ![candidateId] = @ + 1] ELSE accepted
      /\ successes' = IF ok THEN [successes EXCEPT ![voterId] = @ + 1] ELSE successes
      /\ stack' = IF reenter THEN Append(stack, cb) ELSE stack
      /\ last' = [op |-> "castVote", voterId |-> voterId, candidateId |-> candidateId,
                  cb |-> cb, reason |-> reason]
      /\ UNCHANGED <<candidateList, registeredVoters, returnedTrue>>

\* The callback on top of the stack returns, and with it its castVote.
callbackReturn ==
  /\ stack # <<>>
  /\ stack' = SubSeq(stack, 1, Len(stack) - 1)
  /\ last' = [op |-> "return"]
  /\ UNCHANGED <<candidateList, votes, registeredVoters, votedVoters,
                 accepted, successes, returnedTrue>>

\* ------------------------------------------------------------- getResults

resultRecords ==
  [i \in 1..Len(candidateList) |->
     [id |-> candidateList[i].id, name |-> candidateList[i].name,
      party |-> candidateList[i].party,
      votes |-> Coalesce(Get(votes, candidateList[i].id), Num(0))]]

IndexOrZero(id) == IF id \in DOMAIN candidateIndex THEN Num(candidateIndex[id]) ELSE Num(0)

defaultCompare(a, b) ==
  IF b.votes # a.votes THEN Minus(b.votes, a.votes)
  ELSE Minus(IndexOrZero(a.id), IndexOrZero(b.id))

\* A comparator a caller may pass: (a, b) => a.votes - b.votes.
votesAscending(a, b) == Minus(a.votes, b.votes)

SortFns == {"undefined", "votesAscending"}

\* Array.prototype.sort's reading of the comparator: NaN counts as +0.
SortCompare(sortFn, a, b) ==
  LET v == IF sortFn = "votesAscending" THEN votesAscending(a, b) ELSE defaultCompare(a, b)
  IN  IF v.t = "nan" THEN 0 ELSE v.n

\* ECMAScript's "consistent comparator", c[i][j] the comparison of the i-th
\* with the j-th of n elements.
Consistent(c, n) ==
  \A i, j \in 1..n :
    /\ (c[i][j] < 0) = (c[j][i] > 0)
    /\ \A k \in 1..n :
         /\ (c[i][j] = 0 /\ c[j][k] = 0) => c[i][k] = 0
         /\ (c[i][j] < 0 /\ c[j][k] < 0) => c[i][k] < 0
         /\ (c[i][j] > 0 /\ c[j][k] > 0) => c[i][k] > 0

IndexPermutations(n) == { p \in [1..n -> 1..n] : \A i, j \in 1..n : p[i] = p[j] => i = j }

\* arr.sort(sortFn): the stable sorted order when the comparator is
\* consistent; otherwise the order is implementation-defined.
SortOutcomes(sortFn, arr) ==
  LET n == Len(arr)
      c == [i \in 1..n |-> [j \in 1..n |-> SortCompare(sortFn, arr[i], arr[j])]]
      stable(p) == \A i, j \in 1..n :
                     i < j => \/ c[p[i]][p[j]] < 0
                              \/ c[p[i]][p[j]] = 0 /\ p[i] < p[j]
      orders == IF Consistent(c, n) THEN { p \in IndexPermutations(n) : stable(p) }
                ELSE IndexPermutations(n)
  IN  { [i \in 1..n |-> arr[p[i]]] : p \in orders }

getResults(sortFn) ==
  \E results \in SortOutcomes(sortFn, resultRecords) :
    /\ last' = [op |-> "getResults", sortFn |-> sortFn, results |-> results]
    /\ UNCHANGED <<candidateList, votes, registeredVoters, votedVoters, stack,
                   accepted, successes, returnedTrue>>

\* -------------------------------------------------------------- getWinner

\* null is the empty sequence, a candidate record a sequence of one.
winnerOf(results) ==
  IF Len(results) = 0 THEN <<>>
  ELSE IF results[1].votes = Num(0) THEN <<>>
  ELSE <<candidateById[results[1].id]>>

getWinner ==
  \E results \in SortOutcomes("undefined", resultRecords) :
    /\ last' = [op |-> "getWinner", winner |-> winnerOf(results)]
    /\ UNCHANGED <<candidateList, votes, registeredVoters, votedVoters, stack,
                   accepted, successes, returnedTrue>>

\* ------------------------------------------------------------------- Spec

Next ==
  \/ \E voter \in VoterInputs : registerVoter(voter)
  \/ \E voterId \in VoterIds, candidateId \in CandidateIds, reenter \in BOOLEAN :
       castVote(voterId, candidateId, reenter)
  \/ callbackReturn
  \/ \E sortFn \in SortFns : getResults(sortFn)
  \/ getWinner

Spec == Init /\ [][Next]_vars

\* ---------------------------------------------------- createVoteValidator

\* rules: truthy is whether rules itself is an object; requiredFields is a
\* list only when isArray.
Rules(minAge, isArray, requiredFields) ==
  [truthy |-> TRUE, minAge |-> minAge, isArray |-> isArray,
   requiredFields |-> requiredFields]
NoRules == [truthy |-> FALSE, minAge |-> Undef, isArray |-> FALSE, requiredFields |-> <<>>]

FieldNames == {"id", "name", "age"}

\* voter[field]
Field(voter, field) ==
  CASE field = "id" -> voter.id
    [] field = "name" -> voter.name
    [] field = "age" -> voter.age
    [] OTHER -> Undef

validatorMinAge(rules) ==
  IF rules.truthy /\ IsFinite(rules.minAge) THEN rules.minAge.n ELSE 18

validatorRequiredFields(rules) ==
  IF rules.truthy /\ rules.isArray THEN rules.requiredFields ELSE <<>>

\* Variant of IsMissing: every falsy value counts as missing.
IsMissing_falsy(value) ==
  \/ value.t \in {"undefined", "null", "nan"}
  \/ value.t = "string" /\ value.s = ""
  \/ value.t = "number" /\ value.n = 0
  \/ value.t = "boolean" /\ value.n = 0

\* The value test of the loop over requiredFields.
IsMissing(value) ==
  \/ value.t \in {"undefined", "null"}
  \/ value.t = "string" /\ value.s = ""

\* The first required field, from position i on, whose value is missing;
\* "" when there is none.
RECURSIVE FirstMissing(_, _, _)
FirstMissing(voter, requiredFields, i) ==
  IF i > Len(requiredFields) THEN ""
  ELSE IF IsMissing(Field(voter, requiredFields[i])) THEN requiredFields[i]
  ELSE FirstMissing(voter, requiredFields, i + 1)

Invalid(reason) == [valid |-> FALSE, reason |-> reason]
\* { valid: true } carries no reason.
Valid == [valid |-> TRUE, reason |-> ""]

\* createVoteValidator(rules)(voter)
createVoteValidator(rules, voter) ==
  LET minAge == validatorMinAge(rules)
      requiredFields == validatorRequiredFields(rules)
      missing == FirstMissing(voter, requiredFields, 1)
  IN  IF voter.kind # "object" THEN Invalid("invalid voter")
      ELSE IF missing # "" THEN Invalid("missing field: " \o missing)
      ELSE IF ~IsFinite(voter.age) \/ voter.age.n < minAge THEN Invalid("underage")
      ELSE Valid

MinAgeInputs == {Undef, NaN, Num(16), Num(21)}
FieldLists == UNION { [1..n -> FieldNames] : n \in 0..MaxFields }
RulesInputs ==
  { Rules(m, TRUE, f) : m \in MinAgeInputs, f \in FieldLists }
    \cup { Rules(m, FALSE, <<>>) : m \in MinAgeInputs } \cup {NoRules}

ValidatorVoters ==
  { Voter(i, nm, a) :
      i \in {Str("V1"), Str(""), Undef, Null, Num(0)},
      nm \in {Str("Mohan"), Str(""), Bool(FALSE)},
      a \in {Num(0), Num(16), Num(17), Num(18), Num(21), NaN, Undef, Str("")} }
    \cup { NonObjectVoter(k) : k \in {"null", "undefined", "string", "number"} }

\* The election plays no part: one with an empty roster stands by.
InitValidator ==
  /\ candidateList = <<>>
  /\ votes = Obj(EmptyOwn)
  /\ registeredVoters = {}
  /\ votedVoters = {}
  /\ stack = <<>>
  /\ accepted = ZeroOn(CandidateIds)
  /\ successes = ZeroOn(VoterIds)
  /\ returnedTrue = {}
  /\ \E rules \in RulesInputs, voter \in ValidatorVoters :
       last = [op |-> "validatorArgs", rules |-> rules, voter |-> voter]

validate ==
  /\ last.op = "validatorArgs"
  /\ last' = [op |-> "validate", rules |-> last.rules, voter |-> last.voter,
              result |-> createVoteValidator(last.rules, last.voter)]
  /\ UNCHANGED <<candidateList, votes, registeredVoters, votedVoters, stack,
                 accepted, successes, returnedTrue>>

NextValidator == validate

SpecValidator == InitValidator /\ [][NextValidator]_vars

\* ------------------------------------------------------- tallyPure, called

TallyKeys == {"C1", "constructor"}
TallyInputs ==
  { Obj(own) : own \in UNION { [K -> 0..MaxCount] : K \in SUBSET TallyKeys } }
    \cup {NullTally}

\* An election for C1 and C2, and a pending direct call of tallyPure.
InitTally ==
  /\ candidateList = << [id |-> "C1", name |-> "Ram", party |-> "Janata"],
                        [id |-> "C2", name |-> "Sita", party |-> "Lok"] >>
  /\ votes = Obj(EmptyOwn)
  /\ registeredVoters = {}
  /\ votedVoters = {}
  /\ stack = <<>>
  /\ accepted = ZeroOn(CandidateIds)
  /\ successes = ZeroOn(VoterIds)
  /\ returnedTrue = {}
  /\ \E t \in TallyInputs, c \in CandidateIds :
       last = [op |-> "tallyPureArgs", currentTally |-> t, candidateId |-> c]

\* argAfter: the argument object once the call has returned; the function
\* assigns to no property of it.
tallyPureCall ==
  /\ last.op = "tallyPureArgs"
  /\ last' = [op |-> "tallyPure", currentTally |-> last.currentTally,
              candidateId |-> last.candidateId,
              argAfter |-> last.currentTally,
              result |-> tallyPure(last.currentTally, last.candidateId)]
  /\ UNCHANGED <<candidateList, votes, registeredVoters, votedVoters, stack,
                 accepted, successes, returnedTrue>>

NextTally == tallyPureCall \/ Next

SpecTally == InitTally /\ [][NextTally]_vars

\* ------------------------------------------------------------- properties

\* The own properties of a tally argument as tallyPure reads them.
OwnOf(t) == IF t.t = "object" THEN t.own ELSE EmptyOwn

\* r is t with the count under c one higher (1 when t has no own c) and
\* every other key as in t.
IncrementedAt(t, c, r) ==
  /\ r.t = "object"
  /\ DOMAIN r.own = DOMAIN OwnOf(t) \cup {c}
  /\ \A k \in DOMAIN OwnOf(t) \ {c} : r.own[k] = OwnOf(t)[k]
  /\ r.own[c] = IF c \in DOMAIN OwnOf(t) THEN OwnOf(t)[c] + 1 ELSE 1

\* C1: a voter id has at most one castVote that invokes onSuccess; once it
\* has one, every castVote by that id for a candidate of the roster invokes
\* onError with "voter already voted" and leaves the tally as it was.
C1_OneVotePerVoter ==
  [][ /\ \A v \in VoterIds : successes'[v] <= 1
      /\ ( /\ last'.op = "castVote"
           /\ successes[last'.voterId] >= 1
           /\ last'.candidateId \in candidateIds )
         => ( /\ last'.cb = "onError"
              /\ last'.reason = "voter already voted"
              /\ votes' = votes ) ]_vars

\* C1 witness: a voter with one accepted vote has just been refused a second.
C1_Witness ==
  /\ last.op = "castVote"
  /\ last.reason = "voter already voted"
  /\ successes[last.voterId] = 1

\* C2: every key of the tally is the id of a roster candidate, and the value
\* under it is the number of castVote calls accepted for that id.
C2_TallyCountsAccepted ==
  /\ DOMAIN votes.own \subseteq candidateIds
  /\ \A c \in DOMAIN votes.own : votes.own[c] = accepted[c]

\* C2 witness: one candidate holds two accepted votes.
C2_Witness == \E c \in DOMAIN votes.own : votes.own[c] = 2 /\ accepted[c] = 2

\* C3: votedVoters is a subset of registeredVoters, and of the ids for which
\* registerVoter has returned true.
C3_VotedAreRegistered ==
  /\ votedVoters \subseteq registeredVoters
  /\ votedVoters \subseteq returnedTrue

\* C3 witness: one registered voter has voted and another has not.
C3_Witness ==
  /\ Cardinality(votedVoters) = 1
  /\ Cardinality(registeredVoters) = 2

\* C4: castVote reports the first failing check in the order registered,
\* candidate known, not yet voted; onSuccess is invoked exactly when all
\* three pass, and one callback is invoked per call.
C4_ValidationOrder ==
  [][ last'.op = "castVote" =>
        LET registered == last'.voterId \in registeredVoters
            known == last'.candidateId \in candidateIds
            fresh == last'.voterId \notin votedVoters
        IN  /\ ~registered =>
                 last'.cb = "onError" /\ last'.reason = "voter not registered"
            /\ (registered /\ ~known) =>
                 last'.cb = "onError" /\ last'.reason = "invalid candidate"
            /\ (registered /\ known /\ ~fresh) =>
                 last'.cb = "onError" /\ last'.reason = "voter already voted"
            /\ (last'.cb = "onSuccess") = (registered /\ known /\ fresh)
            /\ last'.cb \in {"onSuccess", "onError"}
            /\ stack' \in {stack, Append(stack, last'.cb)} ]_vars

\* C4 witness: a voter who has voted names an unknown candidate and is told
\* "invalid candidate".
C4_Witness ==
  /\ last.op = "castVote"
  /\ last.reason = "invalid candidate"
  /\ last.voterId \in votedVoters

\* C5: registerVoter returns true exactly when the voter is valid and its id
\* is not yet registered, so at most once per id; when it returns false,
\* registeredVoters, votedVoters and the tally are unchanged.
C5_RegisterVoter ==
  [][ last'.op = "registerVoter" =>
        LET v == last'.voter
            valid == /\ v.kind = "object"
                     /\ v.id.t = "string" /\ v.id.s # ""
                     /\ v.name.t = "string" /\ v.name.s # ""
                     /\ v.age.t = "number" /\ v.age.n >= 18
        IN  /\ last'.ret = (valid /\ v.id.s \notin registeredVoters)
            /\ last'.ret => v.id.s \notin returnedTrue
            /\ last'.ret => registeredVoters' = registeredVoters \cup {v.id.s}
            /\ ~last'.ret => UNCHANGED <<registeredVoters, votedVoters, votes>> ]_vars

\* C5 witness: a valid voter of exactly 18 is turned away as a duplicate.
C5_Witness ==
  /\ last.op = "registerVoter"
  /\ last.voter = Voter(Str("V2"), Str("Sohan"), Num(18))
  /\ ~last.ret
  /\ "V2" \in registeredVoters

\* The tally count of the i-th roster candidate, 0 when it has none.
TallyCount(i) ==
  IF candidateList[i].id \in DOMAIN votes.own THEN votes.own[candidateList[i].id] ELSE 0

\* C6: getWinner returns null exactly when no vote has been accepted or the
\* roster is empty; otherwise the candidate record with the most votes and,
\* among those, the smallest roster index.
C6_WinnerClaim ==
  [][ last'.op = "getWinner" =>
        LET n == Len(candidateList)
            noVotes == \A c \in CandidateIds : accepted[c] = 0
        IN  /\ (last'.winner = <<>>) = (noVotes \/ n = 0)
            /\ last'.winner # <<>> =>
                 \E i \in 1..n :
                   /\ last'.winner = <<candidateList[i]>>
                   /\ \A j \in 1..n : TallyCount(j) <= TallyCount(i)
                   /\ \A j \in 1..(i - 1) : TallyCount(j) < TallyCount(i) ]_vars

\* C7: getResults() without a comparator returns one record per roster
\* candidate with votes equal to its tally count (0 when it has none), in
\* descending votes, ties in ascending roster index.
C7_ResultsClaim ==
  [][ (last'.op = "getResults" /\ last'.sortFn = "undefined") =>
        LET n == Len(candidateList)
            r == last'.results
        IN  /\ Len(r) = n
            /\ \E p \in IndexPermutations(n) :
                 /\ \A i \in 1..n :
                      r[i] = [id |-> candidateList[p[i]].id,
                              name |-> candidateList[p[i]].name,
                              party |-> candidateList[p[i]].party,
                              votes |-> Num(TallyCount(p[i]))]
                 /\ \A i, j \in 1..n :
                      i < j => \/ TallyCount(p[i]) > TallyCount(p[j])
                               \/ TallyCount(p[i]) = TallyCount(p[j]) /\ p[i] < p[j] ]_vars

\* C8: onError is invoked before any state changes; when onSuccess is
\* invoked the tally and votedVoters already hold the vote; so no castVote
\* issued afterwards, from inside a callback included, is accepted for a
\* voter a second time.
C8_AtomicCastVote ==
  [][ last'.op = "castVote" =>
        /\ last'.cb = "onError" =>
             UNCHANGED <<votes, votedVoters, registeredVoters>>
        /\ last'.cb = "onSuccess" =>
             /\ last'.voterId \notin votedVoters
             /\ last'.voterId \in votedVoters'
             /\ IncrementedAt(votes, last'.candidateId, votes')
        /\ (stack # <<>> /\ last'.voterId \in votedVoters) => last'.cb = "onError"
        /\ successes'[last'.voterId] <= 1 ]_vars

\* C8 witness: inside the onSuccess callback of the only vote cast so far,
\* the same voter's castVote is refused.
C8_Witness ==
  /\ stack = <<"onSuccess">>
  /\ Cardinality(votedVoters) = 1
  /\ last.op = "castVote"
  /\ last.voterId \in votedVoters
  /\ last.reason = "voter already voted"

\* C9: tallyPure(t, c) returns a new mapping that agrees with t off c and
\* holds t[c] + 1 under c (1 when c is absent), t is as it was, and an
\* accepted castVote changes the election's tally in exactly this way.
C9_TallyPure ==
  [][ /\ last'.op = "tallyPure" =>
           /\ IncrementedAt(last'.currentTally, last'.candidateId, last'.result)
           /\ last'.argAfter = last'.currentTally
      /\ (last'.op = "castVote" /\ last'.cb = "onSuccess") =>
           IncrementedAt(votes, last'.candidateId, votes') ]_vars

\* C9 witness: tallyPure has added an absent key, one Object.prototype also
\* has, beside a key the tally held.
C9_Witness ==
  /\ last.op = "tallyPure"
  /\ last.candidateId = "constructor"
  /\ DOMAIN last.currentTally.own = {"C1"}
  /\ last.result.own["constructor"] = 1
  /\ last.result.own["C1"] = last.currentTally.own["C1"]

\* C10: the validator reports the first failing check in the order: voter
\* not an object; the first required field that is undefined, null or "";
\* age not finite or below minAge (18 unless rules give a finite one); and
\* { valid: true } exactly when none fails.
C10_Validator ==
  last.op = "validate" =>
    LET rules == last.rules
        voter == last.voter
        minAge == IF rules.truthy /\ rules.minAge.t = "number" THEN rules.minAge.n ELSE 18
        fields == IF rules.truthy /\ rules.isArray THEN rules.requiredFields ELSE <<>>
        absent(i) == \/ Field(voter, fields[i]).t \in {"undefined", "null"}
                     \/ Field(voter, fields[i]) = Str("")
        missing == { i \in 1..Len(fields) : absent(i) }
        first == CHOOSE i \in missing : \A j \in missing : i <= j
        underage == voter.age.t # "number" \/ voter.age.n < minAge
    IN  /\ last.result =
             IF voter.kind # "object" THEN [valid |-> FALSE, reason |-> "invalid voter"]
             ELSE IF missing # {}
               THEN [valid |-> FALSE, reason |-> "missing field: " \o fields[first]]
             ELSE IF underage THEN [valid |-> FALSE, reason |-> "underage"]
             ELSE [valid |-> TRUE, reason |-> ""]
        /\ last.result.valid = (voter.kind = "object" /\ missing = {} /\ ~underage)

\* C10 witness: an id of 0 counts as present, so the empty name after it is
\* the field reported, ahead of the age below minAge.
C10_Witness ==
  /\ last.op = "validate"
  /\ last.rules.requiredFields = <<"id", "name">>
  /\ last.rules.isArray
  /\ last.voter.kind = "object"
  /\ last.voter.id = Num(0)
  /\ last.voter.name = Str("")
  /\ last.voter.age = Num(17)
  /\ last.result = [valid |-> FALSE, reason |-> "missing field: name"]

\* C11: only an accepted castVote changes the tally or votedVoters; a
\* castVote that reports an error leaves the tally, votedVoters and
\* registeredVoters as they were; getResults and getWinner change no
\* election state; an accepted castVote raises the chosen candidate's count
\* by one and adds the voting voter to votedVoters, and leaves every other
\* count, every other voter and registeredVoters alone.
C11_FrameEffects ==
  [][ /\ (votes' # votes \/ votedVoters' # votedVoters) =>
           (last'.op = "castVote" /\ last'.cb = "onSuccess")
      /\ (last'.op = "castVote" /\ last'.cb = "onError") =>
           /\ last'.reason \in {"voter not registered", "invalid candidate",
                                "voter already voted"}
           /\ UNCHANGED <<votes, votedVoters, registeredVoters>>
      /\ last'.op \in {"getResults", "getWinner"} =>
           UNCHANGED <<candidateList, votes, registeredVoters, votedVoters>>
      /\ (last'.op = "castVote" /\ last'.cb = "onSuccess") =>
           /\ IncrementedAt(votes, last'.candidateId, votes')
           /\ last'.voterId \notin votedVoters
           /\ votedVoters' = votedVoters \cup {last'.voterId}
           /\ UNCHANGED <<registeredVoters, candidateList>> ]_vars

\* C11 witness: a vote has just been accepted while another candidate holds
\* a count and another voter has voted.
C11_Witness ==
  /\ last.op = "castVote"
  /\ last.cb = "onSuccess"
  /\ Cardinality(DOMAIN votes.own) = 2
  /\ Cardinality(votedVoters) = 2

====
